---- MODULE Spec2Model ----
(***************************************************************************)
(* Model of the buffer pool manager (BufferPoolManager) and its LRU        *)
(* replacer (LRUReplacer) of rmdb.                                          *)
(*                                                                         *)
(* Spec     : one caller; every public operation runs as a whole.          *)
(* SpecConc : several threads run fetch_page / unpin_page statement by     *)
(*            statement; the manager's methods take no lock, only the      *)
(*            replacer's methods hold its latch_.                          *)
(* SpecLRU  : the replacer alone, driven by victim / pin / unpin / Size.   *)
(* SpecRec  : the record layer (RmFileHandle, RmScan) on top of the buffer *)
(*            pool, next to other callers of the pool; one thread.         *)
(***************************************************************************)
EXTENDS Integers, Sequences, FiniteSets, TLC

\* ------------------------------------------------------------------ bounds
NumFrames == 2          \* pool_size_: number of frames in pages_
MaxPageNo == 2          \* page numbers range over 0..MaxPageNo
MaxPin    == 2          \* cap on pin_count_ (guards the hit path of fetch)
MaxVal    == 1          \* page bytes are abstracted to a value 0..MaxVal
MaxOps    == 6          \* calls the single caller of Spec issues
NumThreads == 2         \* threads of SpecConc
MaxCalls   == 2         \* calls each thread of SpecConc issues
NumTracked == 3         \* frame ids the caller of SpecLRU passes to the replacer
MaxLruOps  == 5         \* calls the caller of SpecLRU issues
SlotsPerPage == 2       \* file_hdr_.num_records_per_page

\* -------------------------------------------------------- program constants
fd_             == 0    \* the file new_page allocates in
INVALID_PAGE_ID == -1   \* page_no of a frame that never held a page
NoFrame         == -1   \* nullptr returned by fetch_page / new_page

Frames   == 0 .. (NumFrames - 1)
PageNos  == 0 .. MaxPageNo
Values   == 0 .. MaxVal
Threads  == 1 .. NumThreads
TFrames  == 0 .. (NumTracked - 1)
PageIds  == [fd : {fd_}, page_no : PageNos]
InvalidId == [fd |-> -1, page_no |-> INVALID_PAGE_ID]
PageId(no) == [fd |-> fd_, page_no |-> no]

VARIABLES
    pages,          \* pages_[frame]: id_, pin_count_, is_dirty_, data_
    page_table,     \* page_table_: PageId -> frame, a partial function
    free_list,      \* free_list_: sequence of frame ids, front first
    lru_list,       \* LRUReplacer::lru_list_, head (front) first
    lru_map,        \* keys of LRUReplacer::lru_map_
    next_page_id_,  \* next page number new_page hands out
    disk,           \* durable storage: PageId -> bytes
    ev,             \* what the last operation of Spec did and returned
    ops,            \* Spec: number of calls issued so far
    pc,             \* SpecConc: position of each thread
    loc,            \* SpecConc: locals of each thread
    gh,             \* SpecConc: counters of what the threads did
    tr,             \* SpecLRU: the last replacer call and the unpin events so far
    file_hdr_,      \* RmFileHandle::file_hdr_: num_pages, num_records, first_free_page_no
    rid_,           \* RmScan::rid_
    rc              \* SpecRec: the record-layer call in progress and what it did

bpVars  == <<pages, page_table, free_list, lru_list, lru_map, next_page_id_, disk>>
thrVars == <<pc, loc, gh>>
vars    == <<pages, page_table, free_list, lru_list, lru_map, next_page_id_, disk,
             ev, ops, pc, loc, gh, tr, file_hdr_, rid_, rc>>

\* ----------------------------------------------------------------- helpers
Range(s) == {s[i] : i \in 1 .. Len(s)}

Resident(id) == id \in DOMAIN page_table

\* page_table_.erase(id)
Erase(pt, id) == [k \in (DOMAIN pt) \ {id} |-> pt[k]]

\* page_table_[id] = f
Put(pt, id, f) == [k \in (DOMAIN pt) \cup {id} |-> IF k = id THEN f ELSE pt[k]]

NoEv == [op |-> "init", id |-> InvalidId, retFrame |-> NoFrame, retOk |-> FALSE,
         src |-> "none", writes |-> {}, reads |-> {}]

Ev(op, id, retFrame, retOk, src, writes, reads) ==
    [op |-> op, id |-> id, retFrame |-> retFrame, retOk |-> retOk,
     src |-> src, writes |-> writes, reads |-> reads]

\* one call of disk_manager_->write_page: target location, frame, bytes
WriteRec(id, f, d) == [to |-> id, frame |-> f, data |-> d]

\* -------------------------------------------------------------- LRUReplacer
\* The three operations return the replacer's next state (and victim's result).
\* victim that takes the head of lru_list_ (the most recently unpinned frame)
LRU_victim_takes_front(list, map) ==
    IF list = <<>>
    THEN [ok |-> FALSE, frame_id |-> NoFrame, list |-> list, map |-> map]
    ELSE [ok |-> TRUE, frame_id |-> list[1], list |-> Tail(list),
          map |-> map \ {list[1]}]

LRU_victim(list, map) ==
    IF list = <<>>
    THEN [ok |-> FALSE, frame_id |-> NoFrame, list |-> list, map |-> map]
    ELSE [ok |-> TRUE, frame_id |-> list[Len(list)],
          list |-> SubSeq(list, 1, Len(list) - 1),
          map |-> map \ {list[Len(list)]}]

\* pin that erases the tail of lru_list_ when the frame is not tracked
LRU_pin_untracked_erases(list, map, f) ==
    IF f \in map
    THEN [list |-> SelectSeq(list, LAMBDA x : x # f), map |-> map \ {f}]
    ELSE IF list = <<>> THEN [list |-> list, map |-> map]
         ELSE [list |-> SubSeq(list, 1, Len(list) - 1), map |-> map \ {list[Len(list)]}]

LRU_pin(list, map, f) ==
    IF f \in map
    THEN [list |-> SelectSeq(list, LAMBDA x : x # f), map |-> map \ {f}]
    ELSE [list |-> list, map |-> map]

\* unpin that moves an already tracked frame to the head of lru_list_
LRU_unpin_moves_to_front(list, map, f) ==
    [list |-> <<f>> \o SelectSeq(list, LAMBDA x : x # f), map |-> map \cup {f}]

LRU_unpin(list, map, f) ==
    IF f \in map
    THEN [list |-> list, map |-> map]
    ELSE [list |-> <<f>> \o list, map |-> map \cup {f}]

\* ------------------------------------------------------- BufferPoolManager
find_victim_page ==
    IF free_list # <<>>
    THEN [ok |-> TRUE, frame_id |-> Head(free_list), src |-> "free",
          free |-> Tail(free_list), list |-> lru_list, map |-> lru_map]
    ELSE LET v == LRU_victim(lru_list, lru_map) IN
         [ok |-> v.ok, frame_id |-> v.frame_id,
          src |-> IF v.ok THEN "lru" ELSE "none",
          free |-> free_list, list |-> v.list, map |-> v.map]

\* fetch_page whose hit path leaves out replacer_->pin(frame_id)
fetch_page_hit_keeps_tracked(id) ==
    /\ UNCHANGED thrVars
    /\ IF Resident(id)
       THEN LET f == page_table[id] IN
            /\ pages[f].pin_count_ < MaxPin
            /\ pages' = [pages EXCEPT ![f].pin_count_ = @ + 1]
            /\ ev' = Ev("fetch", id, f, TRUE, "hit", {}, {})
            /\ UNCHANGED <<page_table, free_list, lru_list, lru_map, next_page_id_, disk>>
       ELSE LET v == find_victim_page IN
            IF ~v.ok
            THEN /\ ev' = Ev("fetch", id, NoFrame, FALSE, "none", {}, {})
                 /\ UNCHANGED bpVars
            ELSE LET f == v.frame_id IN
                 /\ free_list' = v.free
                 /\ lru_list' = v.list
                 /\ lru_map' = v.map
                 /\ pages' = [pages EXCEPT ![f] =
                        [id_ |-> id, pin_count_ |-> 1, is_dirty_ |-> FALSE,
                         data_ |-> disk[id]]]
                 /\ page_table' = Put(page_table, id, f)
                 /\ ev' = Ev("fetch", id, f, TRUE, v.src, {}, {id})
                 /\ UNCHANGED <<next_page_id_, disk>>

fetch_page(id) ==
    /\ UNCHANGED thrVars
    /\ IF Resident(id)
       THEN LET f == page_table[id]
                r == LRU_pin(lru_list, lru_map, f) IN
            /\ pages[f].pin_count_ < MaxPin
            /\ pages' = [pages EXCEPT ![f].pin_count_ = @ + 1]
            /\ lru_list' = r.list
            /\ lru_map' = r.map
            /\ ev' = Ev("fetch", id, f, TRUE, "hit", {}, {})
            /\ UNCHANGED <<page_table, free_list, next_page_id_, disk>>
       ELSE LET v == find_victim_page IN
            IF ~v.ok
            THEN /\ ev' = Ev("fetch", id, NoFrame, FALSE, "none", {}, {})
                 /\ UNCHANGED bpVars
            ELSE LET f == v.frame_id IN
                 /\ free_list' = v.free
                 /\ lru_list' = v.list
                 /\ lru_map' = v.map
                 /\ pages' = [pages EXCEPT ![f] =
                        [id_ |-> id, pin_count_ |-> 1, is_dirty_ |-> FALSE,
                         data_ |-> disk[id]]]
                 /\ page_table' = Put(page_table, id, f)
                 /\ ev' = Ev("fetch", id, f, TRUE, v.src, {}, {id})
                 /\ UNCHANGED <<next_page_id_, disk>>

unpin_page(id, is_dirty) ==
    /\ UNCHANGED thrVars
    /\ IF ~Resident(id)
       THEN /\ ev' = Ev("unpin", id, NoFrame, FALSE, "none", {}, {})
            /\ UNCHANGED bpVars
       ELSE LET f == page_table[id]
                dirty == pages[f].is_dirty_ \/ is_dirty
                pin == IF pages[f].pin_count_ > 0 THEN pages[f].pin_count_ - 1
                       ELSE pages[f].pin_count_
                r == IF pin = 0 THEN LRU_unpin(lru_list, lru_map, f)
                     ELSE [list |-> lru_list, map |-> lru_map] IN
            /\ pages' = [pages EXCEPT ![f].is_dirty_ = dirty, ![f].pin_count_ = pin]
            /\ lru_list' = r.list
            /\ lru_map' = r.map
            /\ ev' = Ev("unpin", id, f, TRUE, "none", {}, {})
            /\ UNCHANGED <<page_table, free_list, next_page_id_, disk>>

\* flush_page that writes only when is_dirty_ is set and the frame is unpinned
flush_page_skips_pinned(id) ==
    /\ UNCHANGED thrVars
    /\ IF ~Resident(id)
       THEN /\ ev' = Ev("flush", id, NoFrame, FALSE, "none", {}, {})
            /\ UNCHANGED bpVars
       ELSE LET f == page_table[id] IN
            IF pages[f].pin_count_ > 0
            THEN /\ ev' = Ev("flush", id, f, TRUE, "none", {}, {})
                 /\ UNCHANGED bpVars
            ELSE /\ disk' = [disk EXCEPT ![id] = pages[f].data_]
                 /\ pages' = [pages EXCEPT ![f].is_dirty_ = FALSE]
                 /\ ev' = Ev("flush", id, f, TRUE, "none",
                             {WriteRec(id, f, pages[f].data_)}, {})
                 /\ UNCHANGED <<page_table, free_list, lru_list, lru_map, next_page_id_>>

flush_page(id) ==
    /\ UNCHANGED thrVars
    /\ IF ~Resident(id)
       THEN /\ ev' = Ev("flush", id, NoFrame, FALSE, "none", {}, {})
            /\ UNCHANGED bpVars
       ELSE LET f == page_table[id] IN
            /\ disk' = [disk EXCEPT ![id] = pages[f].data_]
            /\ pages' = [pages EXCEPT ![f].is_dirty_ = FALSE]
            /\ ev' = Ev("flush", id, f, TRUE, "none",
                        {WriteRec(id, f, pages[f].data_)}, {})
            /\ UNCHANGED <<page_table, free_list, lru_list, lru_map, next_page_id_>>

new_page ==
    /\ UNCHANGED thrVars
    /\ LET v == find_victim_page IN
       IF ~v.ok
       THEN /\ ev' = Ev("new", InvalidId, NoFrame, FALSE, "none", {}, {})
            /\ UNCHANGED bpVars
       ELSE LET f == v.frame_id
                id == PageId(next_page_id_) IN
            /\ next_page_id_ <= MaxPageNo
            /\ next_page_id_' = next_page_id_ + 1
            /\ free_list' = v.free
            /\ lru_list' = v.list
            /\ lru_map' = v.map
            /\ pages' = [pages EXCEPT ![f] =
                   [id_ |-> id, pin_count_ |-> 1, is_dirty_ |-> FALSE, data_ |-> 0]]
            /\ page_table' = Put(page_table, id, f)
            /\ ev' = Ev("new", id, f, TRUE, v.src, {}, {})
            /\ UNCHANGED disk

\* delete_page without the pin_count_ test of lines 187-189
delete_page_ignores_pin(id) ==
    /\ UNCHANGED thrVars
    /\ IF ~Resident(id)
       THEN /\ ev' = Ev("delete", id, NoFrame, FALSE, "none", {}, {})
            /\ UNCHANGED bpVars
       ELSE LET f == page_table[id] IN
            /\ page_table' = Erase(page_table, id)
            /\ free_list' = Append(free_list, f)
            /\ pages' = [pages EXCEPT ![f].data_ = 0]
            /\ ev' = Ev("delete", id, f, TRUE, "none", {}, {})
            /\ UNCHANGED <<lru_list, lru_map, next_page_id_, disk>>

delete_page(id) ==
    /\ UNCHANGED thrVars
    /\ IF ~Resident(id)
       THEN /\ ev' = Ev("delete", id, NoFrame, FALSE, "none", {}, {})
            /\ UNCHANGED bpVars
       ELSE LET f == page_table[id] IN
            IF pages[f].pin_count_ > 0
            THEN /\ ev' = Ev("delete", id, f, FALSE, "none", {}, {})
                 /\ UNCHANGED bpVars
            ELSE /\ page_table' = Erase(page_table, id)
                 /\ free_list' = Append(free_list, f)
                 /\ pages' = [pages EXCEPT ![f].data_ = 0]
                 /\ ev' = Ev("delete", id, f, TRUE, "none", {}, {})
                 /\ UNCHANGED <<lru_list, lru_map, next_page_id_, disk>>

\* flush_page for every key of page_table_ whose fd is the given one; the
\* iteration order of the table does not change the outcome, since a flush
\* does not change data_.
flush_all_pages(fd) ==
    /\ UNCHANGED thrVars
    /\ LET ks == {k \in DOMAIN page_table : k.fd = fd}
           fs == {page_table[k] : k \in ks} IN
       /\ disk' = [k \in PageIds |-> IF k \in ks THEN pages[page_table[k]].data_
                                     ELSE disk[k]]
       /\ pages' = [f \in Frames |-> IF f \in fs
                                     THEN [pages[f] EXCEPT !.is_dirty_ = FALSE]
                                     ELSE pages[f]]
       /\ ev' = Ev("flush_all", InvalidId, NoFrame, TRUE, "none",
                   {WriteRec(k, page_table[k], pages[page_table[k]].data_) : k \in ks},
                   {})
       /\ UNCHANGED <<page_table, free_list, lru_list, lru_map, next_page_id_>>

\* A caller that holds a pin on frame f changes the page's bytes in place and
\* sets is_dirty_ itself, as the record layer does.
write_data(f, v) ==
    /\ UNCHANGED thrVars
    /\ pages[f].pin_count_ > 0
    /\ pages[f].data_ # v
    /\ pages' = [pages EXCEPT ![f].data_ = v, ![f].is_dirty_ = TRUE]
    /\ ev' = Ev("write", pages[f].id_, f, TRUE, "none", {}, {})
    /\ UNCHANGED <<page_table, free_list, lru_list, lru_map, next_page_id_, disk>>

\* ------------------------------------------------------------ specification
InitPool ==
    /\ pages = [f \in Frames |-> [id_ |-> InvalidId, pin_count_ |-> 0,
                                  is_dirty_ |-> FALSE, data_ |-> 0]]
    /\ page_table = <<>>
    /\ free_list = [i \in 1 .. NumFrames |-> i - 1]
    /\ lru_list = <<>>
    /\ lru_map = {}
    /\ next_page_id_ = 0
    /\ disk = [k \in PageIds |-> 0]

InitThreads ==
    /\ pc = [t \in Threads |-> "idle"]
    /\ loc = [t \in Threads |-> [op |-> "none", id |-> InvalidId, frame |-> NoFrame,
                                 tmp |-> 0, dirty |-> FALSE, calls |-> 0]]
    /\ gh = [reads |-> [k \in PageIds |-> 0],     \* read_page calls for k
             allocs |-> [k \in PageIds |-> {}],   \* frames a fetch of k obtained
             fetched |-> [k \in PageIds |-> 0],   \* fetches of k that returned a frame
             hits |-> [k \in PageIds |-> 0],      \* of these, page table hits
             unpins |-> [k \in PageIds |-> 0],    \* unpins of k that found it resident
             evictions |-> 0]                     \* frames taken from the replacer

\* stamp[f] is the time of the unpin call that inserted f, 0 while f is not
\* tracked; the other fields describe the last call.
InitTr ==
    tr = [clock |-> 0, stamp |-> [f \in TFrames |-> 0], op |-> "init",
          frame |-> NoFrame, ok |-> FALSE, size |-> 0, nBefore |-> 0,
          wasTracked |-> FALSE]

Rid(p, sl) == [page_no |-> p, slot_no |-> sl]

\* no record-layer call in progress; pin0, out, mod and dirtyOk describe the
\* last call: the pin counts when it started, the fetches of each identity
\* it has not yet unpinned, whether it changed the bytes of the page it
\* holds, and whether every unpin after a change passed is_dirty = true.
NoCall ==
    [op |-> "none", pc |-> "idle", rid |-> Rid(0, 0), buf |-> 0, page_no |-> 0,
     page_id |-> InvalidId, page |-> NoFrame, flag |-> FALSE, then |-> "return",
     pin0 |-> [f \in Frames |-> 0], out |-> [k \in PageIds |-> 0],
     mod |-> FALSE, dirtyOk |-> TRUE, rid0 |-> Rid(0, 0), nexts |-> 0]

\* a file of no pages
InitFile ==
    file_hdr_ = [num_pages |-> 0, num_records |-> 0, first_free_page_no |-> 0]

\* a scan as RmScan::RmScan leaves it, and no call made
InitRecord ==
    /\ InitFile
    /\ rid_ = Rid(0, 0)
    /\ rc = NoCall

Init == InitPool /\ InitThreads /\ InitTr /\ InitRecord /\ ev = NoEv /\ ops = 0

\* one more call of the single caller
recVars == <<file_hdr_, rid_, rc>>

Tick == /\ ops < MaxOps /\ ops' = ops + 1
        /\ rc.pc = "idle"
        /\ UNCHANGED <<tr, recVars>>

Fetch      == Tick /\ \E id \in PageIds : fetch_page(id)
Unpin      == Tick /\ \E id \in PageIds, d \in BOOLEAN : unpin_page(id, d)
Flush      == Tick /\ \E id \in PageIds : flush_page(id)
NewPage    == Tick /\ new_page
DeletePage == Tick /\ \E id \in PageIds : delete_page(id)
FlushAll   == Tick /\ \E fd \in {fd_, fd_ + 1} : flush_all_pages(fd)
WriteData  == Tick /\ \E f \in Frames, v \in Values : write_data(f, v)

Next == Fetch \/ Unpin \/ Flush \/ NewPage \/ DeletePage \/ FlushAll \/ WriteData

Spec == Init /\ [][Next]_vars

\* ---------------------------------------------------------------- SpecConc
\* fetch_page and unpin_page take no lock, so the statements of two calls
\* interleave; each action below is one statement (or one run of statements
\* that touch no shared state in between) of one thread.  The replacer's
\* methods run as a whole under latch_, and find_victim_page is taken as a
\* whole.
seqVars == <<ev, ops, tr, file_hdr_, rid_, rc>>

SetLoc(t, r) == loc' = [loc EXCEPT ![t] = r]
Goto(t, p)   == pc' = [pc EXCEPT ![t] = p]

\* a thread issues fetch_page(id)
CallFetch ==
    \E t \in Threads, id \in PageIds :
        /\ pc[t] = "idle"
        /\ loc[t].calls < MaxCalls
        /\ SetLoc(t, [loc[t] EXCEPT !.op = "fetch", !.id = id, !.frame = NoFrame,
                                    !.calls = @ + 1])
        /\ Goto(t, "f_lookup")
        /\ UNCHANGED <<bpVars, seqVars, gh>>

\* a thread issues unpin_page(id, is_dirty)
CallUnpin ==
    \E t \in Threads, id \in PageIds, d \in BOOLEAN :
        /\ pc[t] = "idle"
        /\ loc[t].calls < MaxCalls
        /\ SetLoc(t, [loc[t] EXCEPT !.op = "unpin", !.id = id, !.frame = NoFrame,
                                    !.dirty = d, !.calls = @ + 1])
        /\ Goto(t, "u_lookup")
        /\ UNCHANGED <<bpVars, seqVars, gh>>

\* fetch_page: the page table test and the lookup of the frame
f_lookup ==
    \E t \in Threads :
        /\ pc[t] = "f_lookup"
        /\ IF Resident(loc[t].id)
           THEN /\ SetLoc(t, [loc[t] EXCEPT !.frame = page_table[loc[t].id]])
                /\ Goto(t, "f_load_pin")
           ELSE /\ Goto(t, "f_victim")
                /\ UNCHANGED loc
        /\ UNCHANGED <<bpVars, seqVars, gh>>

\* fetch_page, hit: pin_count_++ reads the counter ...
f_load_pin ==
    \E t \in Threads :
        /\ pc[t] = "f_load_pin"
        /\ SetLoc(t, [loc[t] EXCEPT !.tmp = pages[loc[t].frame].pin_count_])
        /\ Goto(t, "f_store_pin")
        /\ UNCHANGED <<bpVars, seqVars, gh>>

\* ... and writes it back incremented
f_store_pin ==
    \E t \in Threads :
        /\ pc[t] = "f_store_pin"
        /\ pages' = [pages EXCEPT ![loc[t].frame].pin_count_ = loc[t].tmp + 1]
        /\ Goto(t, "f_rpin")
        /\ UNCHANGED <<page_table, free_list, lru_list, lru_map, next_page_id_, disk,
                       seqVars, loc, gh>>

\* fetch_page, hit: replacer_->pin(frame_id) and the return
f_rpin ==
    \E t \in Threads :
        /\ pc[t] = "f_rpin"
        /\ LET r == LRU_pin(lru_list, lru_map, loc[t].frame) IN
           /\ lru_list' = r.list
           /\ lru_map' = r.map
        /\ gh' = [gh EXCEPT !.hits[loc[t].id] = @ + 1, !.fetched[loc[t].id] = @ + 1]
        /\ Goto(t, "idle")
        /\ UNCHANGED <<pages, page_table, free_list, next_page_id_, disk, seqVars, loc>>

\* fetch_page, miss: find_victim_page, or the return of nullptr
f_victim ==
    \E t \in Threads :
        /\ pc[t] = "f_victim"
        /\ LET v == find_victim_page IN
           IF ~v.ok
           THEN /\ Goto(t, "idle")
                /\ UNCHANGED <<bpVars, loc, gh>>
           ELSE /\ free_list' = v.free
                /\ lru_list' = v.list
                /\ lru_map' = v.map
                /\ SetLoc(t, [loc[t] EXCEPT !.frame = v.frame_id])
                /\ gh' = [gh EXCEPT !.allocs[loc[t].id] = @ \cup {v.frame_id},
                                    !.evictions = IF v.src = "lru" THEN @ + 1 ELSE @]
                /\ Goto(t, "f_read")
                /\ UNCHANGED <<pages, page_table, next_page_id_, disk>>
        /\ UNCHANGED seqVars

\* fetch_page, miss: disk_manager_->read_page into the frame
f_read ==
    \E t \in Threads :
        /\ pc[t] = "f_read"
        /\ pages' = [pages EXCEPT ![loc[t].frame].data_ = disk[loc[t].id]]
        /\ gh' = [gh EXCEPT !.reads[loc[t].id] = @ + 1]
        /\ Goto(t, "f_meta")
        /\ UNCHANGED <<page_table, free_list, lru_list, lru_map, next_page_id_, disk,
                       seqVars, loc>>

\* fetch_page, miss: id_, pin_count_ and is_dirty_ of the frame
f_meta ==
    \E t \in Threads :
        /\ pc[t] = "f_meta"
        /\ pages' = [pages EXCEPT ![loc[t].frame].id_ = loc[t].id,
                                  ![loc[t].frame].pin_count_ = 1,
                                  ![loc[t].frame].is_dirty_ = FALSE]
        /\ Goto(t, "f_table")
        /\ UNCHANGED <<page_table, free_list, lru_list, lru_map, next_page_id_, disk,
                       seqVars, loc, gh>>

\* fetch_page, miss: the page table entry and the return
f_table ==
    \E t \in Threads :
        /\ pc[t] = "f_table"
        /\ page_table' = Put(page_table, loc[t].id, loc[t].frame)
        /\ gh' = [gh EXCEPT !.fetched[loc[t].id] = @ + 1]
        /\ Goto(t, "idle")
        /\ UNCHANGED <<pages, free_list, lru_list, lru_map, next_page_id_, disk,
                       seqVars, loc>>

\* unpin_page: the page table test, the lookup of the frame and is_dirty_
u_lookup ==
    \E t \in Threads :
        /\ pc[t] = "u_lookup"
        /\ IF ~Resident(loc[t].id)
           THEN /\ Goto(t, "idle")
                /\ UNCHANGED <<pages, loc, gh>>
           ELSE LET f == page_table[loc[t].id] IN
                /\ SetLoc(t, [loc[t] EXCEPT !.frame = f])
                /\ pages' = [pages EXCEPT ![f].is_dirty_ = @ \/ loc[t].dirty]
                /\ gh' = [gh EXCEPT !.unpins[loc[t].id] = @ + 1]
                /\ Goto(t, "u_load_pin")
        /\ UNCHANGED <<page_table, free_list, lru_list, lru_map, next_page_id_, disk,
                       seqVars>>

\* unpin_page: the test pin_count_ > 0 reads the counter ...
u_load_pin ==
    \E t \in Threads :
        /\ pc[t] = "u_load_pin"
        /\ SetLoc(t, [loc[t] EXCEPT !.tmp = pages[loc[t].frame].pin_count_])
        /\ Goto(t, IF pages[loc[t].frame].pin_count_ > 0 THEN "u_store_pin" ELSE "u_zero")
        /\ UNCHANGED <<bpVars, seqVars, gh>>

\* ... and pin_count_-- writes it back decremented
u_store_pin ==
    \E t \in Threads :
        /\ pc[t] = "u_store_pin"
        /\ pages' = [pages EXCEPT ![loc[t].frame].pin_count_ = loc[t].tmp - 1]
        /\ Goto(t, "u_zero")
        /\ UNCHANGED <<page_table, free_list, lru_list, lru_map, next_page_id_, disk,
                       seqVars, loc, gh>>

\* unpin_page: replacer_->unpin(frame_id) once the counter is 0, and the return
u_zero ==
    \E t \in Threads :
        /\ pc[t] = "u_zero"
        /\ LET r == IF pages[loc[t].frame].pin_count_ = 0
                    THEN LRU_unpin(lru_list, lru_map, loc[t].frame)
                    ELSE [list |-> lru_list, map |-> lru_map] IN
           /\ lru_list' = r.list
           /\ lru_map' = r.map
        /\ Goto(t, "idle")
        /\ UNCHANGED <<pages, page_table, free_list, next_page_id_, disk, seqVars,
                       loc, gh>>

NextConc ==
    \/ CallFetch \/ CallUnpin
    \/ f_lookup \/ f_load_pin \/ f_store_pin \/ f_rpin
    \/ f_victim \/ f_read \/ f_meta \/ f_table
    \/ u_lookup \/ u_load_pin \/ u_store_pin \/ u_zero

SpecConc == Init /\ [][NextConc]_vars

\* ----------------------------------------------------------------- SpecLRU
\* LRUReplacer::Size() reads the member LRUlist_; victim, pin and unpin work
\* on lru_list_ / lru_map_ and no method assigns LRUlist_, so it stays as
\* constructed.
LRUlist_ == <<>>

LRU_Size == Len(LRUlist_)

StampedSet(st) == {f \in TFrames : st[f] > 0}

TrRec(st, op, f, ok, size, wasTracked) ==
    [clock |-> tr.clock + 1, stamp |-> st, op |-> op, frame |-> f, ok |-> ok,
     size |-> size, nBefore |-> Cardinality(StampedSet(tr.stamp)),
     wasTracked |-> wasTracked]

nonLruVars == <<pages, page_table, free_list, next_page_id_, disk, ev, ops, pc, loc, gh,
                file_hdr_, rid_, rc>>

LruVictim ==
    /\ tr.clock < MaxLruOps
    /\ LET v == LRU_victim(lru_list, lru_map) IN
       /\ lru_list' = v.list
       /\ lru_map' = v.map
       /\ tr' = TrRec(IF v.ok THEN [tr.stamp EXCEPT ![v.frame_id] = 0] ELSE tr.stamp,
                      "victim", v.frame_id, v.ok, 0, FALSE)
    /\ UNCHANGED nonLruVars

LruPin ==
    \E f \in TFrames :
        /\ tr.clock < MaxLruOps
        /\ LET r == LRU_pin(lru_list, lru_map, f) IN
           /\ lru_list' = r.list
           /\ lru_map' = r.map
        /\ tr' = TrRec([tr.stamp EXCEPT ![f] = 0], "pin", f, TRUE, 0, tr.stamp[f] > 0)
        /\ UNCHANGED nonLruVars

LruUnpin ==
    \E f \in TFrames :
        /\ tr.clock < MaxLruOps
        /\ LET r == LRU_unpin(lru_list, lru_map, f) IN
           /\ lru_list' = r.list
           /\ lru_map' = r.map
        /\ tr' = TrRec(IF tr.stamp[f] > 0 THEN tr.stamp
                       ELSE [tr.stamp EXCEPT ![f] = tr.clock + 1],
                       "unpin", f, TRUE, 0, tr.stamp[f] > 0)
        /\ UNCHANGED nonLruVars

LruSize ==
    /\ tr.clock < MaxLruOps
    /\ tr' = TrRec(tr.stamp, "size", NoFrame, TRUE, LRU_Size, FALSE)
    /\ UNCHANGED <<lru_list, lru_map>>
    /\ UNCHANGED nonLruVars

NextLRU == LruVictim \/ LruPin \/ LruUnpin \/ LruSize

SpecLRU == Init /\ [][NextLRU]_vars

\* --------------------------------------------------- RmFileHandle, RmScan
\* A page's bytes are kept as the set of its slots whose first byte is not 0,
\* written as a number: slot sl holds a record iff bit sl of data_ is 1.
Occupied(v, sl) == (v \div (2 ^ sl)) % 2 = 1

\* memcpy(slot, buf, record_size) and slot[0] = 0: buf is the first byte written
SetSlot(v, sl, buf) ==
    v - (IF Occupied(v, sl) THEN 2 ^ sl ELSE 0) + (IF buf = 0 THEN 0 ELSE 2 ^ sl)

Slots == 0 .. SlotsPerPage - 1

\* the rids a caller passes: slot_no = SlotsPerPage is past the end of a page
RidArgs == [page_no : PageNos, slot_no : 0 .. SlotsPerPage]

FirstFree(v) ==
    IF \E sl \in Slots : ~Occupied(v, sl)
    THEN CHOOSE sl \in Slots : ~Occupied(v, sl) /\ \A t \in Slots : t < sl => Occupied(v, t)
    ELSE SlotsPerPage

\* the while loop of RmScan::next inside one page: the first slot at or after
\* from that holds a record, SlotsPerPage when there is none
FirstRecord(v, from) ==
    IF \E sl \in Slots : sl >= from /\ Occupied(v, sl)
    THEN CHOOSE sl \in Slots : /\ sl >= from /\ Occupied(v, sl)
                               /\ \A t \in Slots : (t >= from /\ t < sl) => ~Occupied(v, t)
    ELSE SlotsPerPage

is_end == rid_.page_no = -1 /\ rid_.slot_no = -1

Begin(op, rid, buf, entry) ==
    [NoCall EXCEPT !.op = op, !.pc = entry, !.rid = rid, !.buf = buf,
                   !.page_id = PageId(rid.page_no),
                   !.pin0 = [f \in Frames |-> pages[f].pin_count_],
                   !.rid0 = rid_, !.nexts = rc.nexts]

\* what stays of a call after its return
Ret(r) ==
    [NoCall EXCEPT !.op = r.op, !.out = r.out, !.pin0 = r.pin0,
                   !.dirtyOk = r.dirtyOk, !.rid0 = r.rid0, !.nexts = r.nexts]

Call == rc.pc = "idle" /\ ops < MaxOps /\ ops' = ops + 1

\* entry of get_record, insert_record(rid, buf), delete_record, update_record:
\* the rid test returns at once
RidCall(op, rid, buf) ==
    /\ Call
    /\ rc' = IF rid.page_no >= file_hdr_.num_pages \/ rid.slot_no >= SlotsPerPage
             THEN Ret(Begin(op, rid, buf, "idle"))
             ELSE Begin(op, rid, buf, "s_fetch")
    /\ UNCHANGED <<bpVars, thrVars, ev, tr, file_hdr_, rid_>>

get_record    == \E rid \in RidArgs : RidCall("get", rid, 0)
insert_record_at == \E rid \in RidArgs, buf \in Values : RidCall("insert_at", rid, buf)
delete_record == \E rid \in RidArgs : RidCall("delete", rid, 0)
update_record == \E rid \in RidArgs, buf \in Values : RidCall("update", rid, buf)

insert_record ==
    /\ Call
    /\ \E buf \in Values : rc' = Begin("insert", Rid(0, 0), buf, "i_loop")
    /\ UNCHANGED <<bpVars, thrVars, ev, tr, file_hdr_, rid_>>

RmScan_RmScan ==
    /\ Call
    /\ rid_' = Rid(0, 0)
    /\ rc' = NoCall
    /\ UNCHANGED <<bpVars, thrVars, ev, tr, file_hdr_>>

\* the caller's loop  while (!scan.is_end()) scan.next()
RmScan_next ==
    /\ Call
    /\ ~is_end
    /\ rc' = [Begin("next", rid_, 0, "n_fetch") EXCEPT !.nexts = rc.nexts + 1]
    /\ UNCHANGED <<bpVars, thrVars, ev, tr, file_hdr_, rid_>>

\* fetch_page of the four operations that take a rid
rm_fetch ==
    /\ rc.pc = "s_fetch"
    /\ fetch_page(rc.page_id)
    /\ rc' = IF ev'.retFrame = NoFrame
             THEN Ret(rc)
             ELSE [rc EXCEPT !.pc = IF rc.op = "get" THEN "s_unpin" ELSE "s_body",
                             !.page = ev'.retFrame,
                             !.out[rc.page_id] = @ + 1,
                             !.flag = (rc.op # "get"), !.then = "return"]
    /\ UNCHANGED <<ops, tr, file_hdr_, rid_>>

\* the write of insert_record(rid, buf), delete_record and update_record
rm_body ==
    /\ rc.pc = "s_body"
    /\ LET f == rc.page
           b == IF rc.op = "delete" THEN 0 ELSE rc.buf IN
       pages' = [pages EXCEPT ![f].data_ = SetSlot(@, rc.rid.slot_no, b),
                              ![f].is_dirty_ = TRUE]
    /\ file_hdr_' = IF rc.op = "delete"
                    THEN [file_hdr_ EXCEPT !.num_records = @ - 1]
                    ELSE file_hdr_
    /\ rc' = [rc EXCEPT !.pc = "s_unpin", !.mod = TRUE]
    /\ UNCHANGED <<page_table, free_list, lru_list, lru_map, next_page_id_, disk,
                   thrVars, ev, ops, tr, rid_>>

\* every unpin_page call of the record layer, and what follows it
rm_unpin ==
    /\ rc.pc = "s_unpin"
    /\ unpin_page(rc.page_id, rc.flag)
    /\ LET r1 == [rc EXCEPT !.out[rc.page_id] = @ - 1,
                            !.dirtyOk = @ /\ (rc.mod => rc.flag),
                            !.mod = FALSE] IN
       CASE rc.then = "return" ->
              rc' = Ret(r1) /\ UNCHANGED rid_
         [] rc.then = "i_next" ->
              rc' = [r1 EXCEPT !.page_no = @ + 1, !.pc = "i_loop"] /\ UNCHANGED rid_
         [] rc.then = "n_adv" ->
              LET p == rid_.page_no + 1 IN
              IF p >= file_hdr_.num_pages
              THEN rid_' = Rid(-1, -1) /\ rc' = Ret(r1)
              ELSE /\ rid_' = Rid(p, 0)
                   /\ rc' = [r1 EXCEPT !.page_id = PageId(p), !.pc = "n_fetch"]
    /\ UNCHANGED <<ops, tr, file_hdr_>>

\* insert_record(buf): one turn of the loop over the pages of the file
rm_insert_scan ==
    /\ rc.pc = "i_loop"
    /\ rc.page_no < file_hdr_.num_pages
    /\ fetch_page(PageId(rc.page_no))
    /\ rc' = IF ev'.retFrame = NoFrame
             THEN [rc EXCEPT !.page_no = @ + 1]
             ELSE LET sl == FirstFree(pages'[ev'.retFrame].data_)
                      r1 == [rc EXCEPT !.page = ev'.retFrame,
                                       !.page_id = PageId(rc.page_no),
                                       !.out[PageId(rc.page_no)] = @ + 1] IN
                  IF sl < SlotsPerPage
                  THEN [r1 EXCEPT !.rid = Rid(rc.page_no, sl), !.pc = "i_put"]
                  ELSE [r1 EXCEPT !.flag = FALSE, !.then = "i_next", !.pc = "s_unpin"]
    /\ UNCHANGED <<ops, tr, file_hdr_, rid_>>

\* insert_record(buf): the free slot found
rm_insert_put ==
    /\ rc.pc = "i_put"
    /\ pages' = [pages EXCEPT ![rc.page].data_ = SetSlot(@, rc.rid.slot_no, rc.buf),
                              ![rc.page].is_dirty_ = TRUE]
    /\ file_hdr_' = [file_hdr_ EXCEPT !.first_free_page_no = rc.page_no,
                                      !.num_records = @ + 1]
    /\ rc' = [rc EXCEPT !.pc = "s_unpin", !.mod = TRUE, !.flag = TRUE, !.then = "return"]
    /\ UNCHANGED <<page_table, free_list, lru_list, lru_map, next_page_id_, disk,
                   thrVars, ev, ops, tr, rid_>>

\* insert_record(buf): no page had a free slot
rm_insert_new ==
    /\ rc.pc = "i_loop"
    /\ rc.page_no >= file_hdr_.num_pages
    /\ new_page
    /\ rc' = IF ev'.retFrame = NoFrame
             THEN Ret(rc)
             ELSE [rc EXCEPT !.pc = "i_init", !.page = ev'.retFrame,
                             !.page_id = ev'.id, !.out[ev'.id] = @ + 1]
    /\ UNCHANGED <<ops, tr, file_hdr_, rid_>>

rm_insert_init ==
    /\ rc.pc = "i_init"
    /\ pages' = [pages EXCEPT ![rc.page].data_ = SetSlot(0, 0, rc.buf),
                              ![rc.page].is_dirty_ = TRUE]
    /\ file_hdr_' = [file_hdr_ EXCEPT !.num_pages = @ + 1,
                                      !.first_free_page_no = file_hdr_.num_pages,
                                      !.num_records = @ + 1]
    /\ rc' = [rc EXCEPT !.pc = "s_unpin", !.mod = TRUE, !.flag = TRUE, !.then = "return",
                        !.rid = Rid(file_hdr_.num_pages, 0)]
    /\ UNCHANGED <<page_table, free_list, lru_list, lru_map, next_page_id_, disk,
                   thrVars, ev, ops, tr, rid_>>

\* RmScan::next: both fetch_page calls
rm_next_fetch ==
    /\ rc.pc = "n_fetch"
    /\ fetch_page(rc.page_id)
    /\ IF ev'.retFrame = NoFrame
       THEN rid_' = Rid(-1, -1) /\ rc' = Ret(rc)
       ELSE /\ rc' = [rc EXCEPT !.pc = "n_loop", !.page = ev'.retFrame,
                                !.out[rc.page_id] = @ + 1]
            /\ UNCHANGED rid_
    /\ UNCHANGED <<ops, tr, file_hdr_>>

\* RmScan::next: the slots of the page it holds, from rid_.slot_no on
rm_next_slots ==
    /\ rc.pc = "n_loop"
    /\ LET sl == FirstRecord(pages[rc.page].data_, rid_.slot_no) IN
       /\ rid_' = [rid_ EXCEPT !.slot_no = IF @ >= SlotsPerPage THEN @ ELSE sl]
       /\ rc' = [rc EXCEPT !.pc = "s_unpin", !.flag = FALSE,
                           !.then = IF rid_'.slot_no >= SlotsPerPage
                                    THEN "n_adv" ELSE "return"]
    /\ UNCHANGED <<bpVars, thrVars, ev, ops, tr, file_hdr_>>

\* the record layer, and the other users of the pool between two of its calls
NextRec ==
    \/ get_record \/ insert_record_at \/ delete_record \/ update_record
    \/ insert_record \/ RmScan_RmScan \/ RmScan_next
    \/ rm_fetch \/ rm_body \/ rm_unpin
    \/ rm_insert_scan \/ rm_insert_put \/ rm_insert_new \/ rm_insert_init
    \/ rm_next_fetch \/ rm_next_slots
    \/ Fetch \/ Unpin \/ DeletePage

SpecRec == Init /\ [][NextRec]_vars

\* ------------------------------------------------------------------ claims
Tracked(f) == f \in lru_map \/ f \in Range(lru_list)
InFree(f)  == f \in Range(free_list)

\* frame f is in use and its current identity is id
Holds(f, id) == pages[f].id_ = id /\ ~InFree(f)

\* the last call was a fetch_page / new_page that obtained a frame through
\* find_victim_page
TookVictim(e) == e.op \in {"fetch", "new"} /\ e.src \in {"free", "lru"}

\* C1: after any sequence of calls no frame with pin count > 0 is in the
\* eviction tracker, and the victim selection of fetch / new_page never hands
\* out a frame whose pin count is > 0.
C1_NoPinnedTracked == \A f \in Frames : pages[f].pin_count_ > 0 => ~Tracked(f)

C1_PinnedNeverVictim ==
    [][ /\ C1_NoPinnedTracked'
        /\ TookVictim(ev') => pages[ev'.retFrame].pin_count_ = 0 ]_vars

\* C2: when fetch / new_page reuses a frame obtained from the tracker, a dirty
\* frame is written back exactly once, with its latest bytes, to its old
\* identity's location before it is overwritten; a clean frame is not written.
C2_DirtyVictimWrittenBack ==
    [][ (ev'.op \in {"fetch", "new"} /\ ev'.src = "lru") =>
            LET f == ev'.retFrame IN
            IF pages[f].is_dirty_
            THEN /\ ev'.writes = {WriteRec(pages[f].id_, f, pages[f].data_)}
                 /\ disk'[pages[f].id_] = pages[f].data_
            ELSE ev'.writes = {} ]_vars

\* C3: the page table contains an identity iff some frame currently holds it,
\* the entry maps to that frame, and no two keys map to the same frame.
C3_PageTableMatchesFrames ==
    /\ \A id \in PageIds : Resident(id) <=> \E f \in Frames : Holds(f, id)
    /\ \A id \in DOMAIN page_table : pages[page_table[id]].id_ = id
    /\ \A a, b \in DOMAIN page_table : page_table[a] = page_table[b] => a = b

\* C4: each frame is in exactly one of: the free list; the tracker (in use,
\* pin count 0); in use and pinned (untracked).
C4_FramePartition ==
    \A f \in Frames :
        /\ InFree(f) => ~Tracked(f) /\ pages[f].pin_count_ = 0
        /\ ~InFree(f) => (Tracked(f) <=> pages[f].pin_count_ = 0)

\* C5: every successful fetch(id) returns a frame whose current identity is id;
\* if no frame held id before the call, the fetch is a miss that reads id from
\* storage into the frame it returns.
C5_FetchReturnsRequestedPage ==
    [][ (ev'.op = "fetch" /\ ev'.retFrame # NoFrame) =>
            /\ pages'[ev'.retFrame].id_ = ev'.id
            /\ (~\E f \in Frames : pages[f].id_ = ev'.id) =>
                   /\ ev'.reads = {ev'.id}
                   /\ pages'[ev'.retFrame].data_ = disk[ev'.id] ]_vars

\* C6: delete_page(id) on an identity that is not resident returns true and
\* changes no state.
C6_DeleteAbsentSucceeds ==
    [][ (ev'.op = "delete" /\ ~Resident(ev'.id)) =>
            ev'.retOk /\ UNCHANGED bpVars ]_vars

\* C7: delete_page(id) on a resident identity whose frame has pin count > 0
\* returns false and leaves the page table, the free list, the tracker and the
\* frame's identity, bytes, dirty flag and pin count unchanged.
C7_DeletePinnedFails ==
    [][ (ev'.op = "delete" /\ Resident(ev'.id)
            /\ pages[page_table[ev'.id]].pin_count_ > 0) =>
            ~ev'.retOk /\ UNCHANGED bpVars ]_vars

C7_Witness ==
    /\ ev.op = "delete"
    /\ Resident(ev.id)
    /\ pages[page_table[ev.id]].pin_count_ > 0
    /\ pages[page_table[ev.id]].id_ = ev.id
    /\ ~ev.retOk

\* C8: unpin(id, mark_dirty) on an identity that no frame currently holds
\* returns false and changes no frame's pin count or dirty flag and not the
\* tracker.
C8_UnpinAbsentFails ==
    [][ (ev'.op = "unpin" /\ ~\E f \in Frames : pages[f].id_ = ev'.id) =>
            ~ev'.retOk /\ UNCHANGED <<pages, lru_list, lru_map>> ]_vars

AllIdle == \A t \in Threads : pc[t] = "idle"

SumOver(S, F(_)) ==
    LET RECURSIVE Sum(_)
        Sum(T) == IF T = {} THEN 0
                  ELSE LET x == CHOOSE y \in T : TRUE IN F(x) + Sum(T \ {x})
    IN Sum(S)

\* C9: two concurrent fetches of the same non-resident identity issue at most
\* one disk read for it and allocate at most one frame to it; the other call
\* only increments the pin count.  (While no frame has been taken from the
\* replacer and nothing has been unpinned, an identity is loaded at most once
\* and its pin count is the number of fetches that returned it.)
C9_NoDuplicateLoad ==
    (gh.evictions = 0) =>
        \A id \in PageIds :
            /\ gh.reads[id] <= 1
            /\ Cardinality(gh.allocs[id]) <= 1
            /\ (AllIdle /\ Resident(id) /\ SumOver(PageIds, LAMBDA k : gh.unpins[k]) = 0)
                   => pages[page_table[id]].pin_count_ = gh.fetched[id]

\* the pin counts that nF fetches (hits) and nU unpins of one resident page
\* leave, in any sequential order, starting from pin count p
RECURSIVE SeqResults(_, _, _)
SeqResults(nF, nU, p) ==
    IF nF = 0 /\ nU = 0 THEN {p}
    ELSE (IF nF > 0 THEN SeqResults(nF - 1, nU, p + 1) ELSE {})
         \cup (IF nU > 0 THEN SeqResults(nF, nU - 1, IF p > 0 THEN p - 1 ELSE 0) ELSE {})

\* C10: concurrent fetch and unpin calls on the same resident identity leave
\* the pin count some sequential order of the calls leaves, and the pin count
\* is never negative.  (The identity was loaded once, into one frame, with pin
\* count 1; every other call on it is a hit or an unpin that found it.)
C10_PinCountSequential ==
    /\ \A f \in Frames : pages[f].pin_count_ >= 0
    /\ AllIdle =>
         \A id \in PageIds :
            (gh.evictions = 0 /\ gh.reads[id] = 1 /\ Cardinality(gh.allocs[id]) = 1
                /\ Resident(id))
            => pages[page_table[id]].pin_count_
                   \in SeqResults(gh.hits[id], gh.unpins[id], 1)

\* C11: select_victim removes and returns the tracked frame that mark_unpinned
\* inserted earliest (so successive victims come in the order of the unpin
\* events), and returns none when no frame is tracked.
C11_VictimIsEarliestUnpinned ==
    [][ (tr'.op = "victim") =>
            LET S == StampedSet(tr.stamp) IN
            IF S = {}
            THEN ~tr'.ok /\ UNCHANGED <<lru_list, lru_map>>
            ELSE /\ tr'.ok
                 /\ tr'.frame \in S
                 /\ \A g \in S : tr.stamp[tr'.frame] <= tr.stamp[g]
                 /\ lru_map' = S \ {tr'.frame}
                 /\ Range(lru_list') = S \ {tr'.frame}
                 /\ Len(lru_list') = Cardinality(S) - 1 ]_vars

C11_Witness == tr.op = "victim" /\ tr.ok /\ tr.nBefore >= 2

\* C15: tracked_count returns the number of frames inserted by mark_unpinned
\* and not since removed by mark_pinned or select_victim.
C15_SizeIsTrackedCount ==
    (tr.op = "size") => tr.size = Cardinality(StampedSet(tr.stamp))

\* C16: mark_unpinned on a tracked frame is a no-op (tracked once, position
\* kept); mark_pinned on an untracked frame is a no-op.
C16_RepeatedCallsAreNoOps ==
    [][ /\ (tr'.op = "unpin" /\ tr.stamp[tr'.frame] > 0) =>
               /\ UNCHANGED <<lru_list, lru_map>>
               /\ Cardinality({i \in 1 .. Len(lru_list') : lru_list'[i] = tr'.frame}) = 1
        /\ (tr'.op = "pin" /\ tr.stamp[tr'.frame] = 0) =>
               UNCHANGED <<lru_list, lru_map>> ]_vars

C16_Witness ==
    /\ tr.op = "unpin" /\ tr.wasTracked
    /\ Len(lru_list) >= 2
    /\ lru_list[1] # tr.frame

\* C12: fetch of a non-resident identity and new_page return none exactly when
\* the free list is empty and all frames are pinned; then no state changes;
\* and the call succeeds once a pin has been released.
C12_ExhaustedIffAllPinned ==
    [][ (ev'.op = "new" \/ (ev'.op = "fetch" /\ ~Resident(ev'.id))) =>
            /\ (ev'.retFrame = NoFrame) <=>
                   (free_list = <<>> /\ \A f \in Frames : pages[f].pin_count_ > 0)
            /\ (ev'.retFrame = NoFrame) => UNCHANGED bpVars
            /\ (ev.op = "unpin" /\ ev.retOk /\ pages[ev.retFrame].pin_count_ = 0)
                   => ev'.retFrame # NoFrame ]_vars

\* C13: flush(id) on a resident identity writes the frame's bytes to storage,
\* pinned or not, clears the dirty flag and leaves pin count, identity, page
\* table, free list and tracker unchanged; on a non-resident identity it
\* returns false and writes nothing.
C13_FlushWritesAndKeepsState ==
    [][ (ev'.op = "flush") =>
            IF Resident(ev'.id)
            THEN LET f == page_table[ev'.id] IN
                 /\ ev'.retOk
                 /\ ev'.writes = {WriteRec(ev'.id, f, pages[f].data_)}
                 /\ disk' = [disk EXCEPT ![ev'.id] = pages[f].data_]
                 /\ pages' = [pages EXCEPT ![f].is_dirty_ = FALSE]
                 /\ UNCHANGED <<page_table, free_list, lru_list, lru_map, next_page_id_>>
            ELSE ~ev'.retOk /\ ev'.writes = {} /\ UNCHANGED bpVars ]_vars

C13_Witness ==
    /\ ev.op = "flush" /\ ev.retOk
    /\ pages[ev.retFrame].pin_count_ > 0
    /\ pages[ev.retFrame].id_ = ev.id
    /\ pages[ev.retFrame].data_ # 0
    /\ disk[ev.id] = pages[ev.retFrame].data_

\* C14: every successful new_page returns an identity that was not resident
\* before the call, with a page number above those of all earlier new_page
\* calls; the frame holds it with pin count 1, clean, and is registered.
C14_NewPageIsFresh ==
    [][ (ev'.op = "new" /\ ev'.retFrame # NoFrame) =>
            /\ ~Resident(ev'.id)
            /\ ev'.id.fd = fd_
            /\ ev'.id.page_no >= next_page_id_
            /\ next_page_id_' > ev'.id.page_no
            /\ pages'[ev'.retFrame].id_ = ev'.id
            /\ pages'[ev'.retFrame].pin_count_ = 1
            /\ ~pages'[ev'.retFrame].is_dirty_
            /\ ev'.id \in DOMAIN page_table'
            /\ page_table'[ev'.id] = ev'.retFrame ]_vars

\* C17: fetching a resident identity whose pin count was brought to 0 is a
\* cache hit: the same frame, no disk read, pin count 1, and the frame is no
\* longer in the tracker.
C17_RefetchIsHit ==
    [][ (ev'.op = "fetch" /\ Resident(ev'.id)
            /\ pages[page_table[ev'.id]].pin_count_ = 0) =>
            LET f == page_table[ev'.id] IN
            /\ ev'.retFrame = f
            /\ ev'.reads = {}
            /\ pages'[f] = [pages[f] EXCEPT !.pin_count_ = 1]
            /\ f \notin lru_map'
            /\ f \notin Range(lru_list') ]_vars

C17_Witness ==
    /\ ev.op = "fetch" /\ ev.src = "hit"
    /\ pages[ev.retFrame].pin_count_ = 1
    /\ pages[ev.retFrame].id_ = ev.id
    /\ ~Tracked(ev.retFrame)

\* C19: every storage write writes a frame's bytes to the location of the
\* identity that frame currently holds.
C19_WritesGoToOwnLocation ==
    \A w \in ev.writes : pages[w.frame].id_ = w.to /\ w.data = pages[w.frame].data_
\* a record-layer operation returns in this step
RmReturns == rc.pc # "idle" /\ rc'.pc = "idle"

\* C18: when a record-layer operation returns it has called unpin once for
\* each fetch_page or new_page that gave it a page, on that identity, every
\* frame's pin count is what it was before the call, and every unpin after
\* a change of the page's bytes passed is_dirty = true.
C18_RecordOpsRestorePins ==
    [][RmReturns => /\ \A k \in PageIds : rc'.out[k] = 0
                    /\ \A f \in Frames : pages'[f].pin_count_ = rc'.pin0[f]
                    /\ rc'.dirtyOk]_vars

\* position a is strictly after position b in the file
After(a, b) ==
    \/ a.page_no > b.page_no
    \/ a.page_no = b.page_no /\ a.slot_no > b.slot_no

\* C20: a call of RmScan::next, from the second call of a scan on, either
\* marks the scan ended or leaves rid_ strictly after the position it had
\* before the call.
C20_NextAdvances ==
    [][(RmReturns /\ rc'.op = "next" /\ rc'.nexts >= 2)
          => (is_end' \/ After(rid_', rc'.rid0))]_vars

====
